---- MODULE Spec2Model ----
(***************************************************************************)
(* Model of the WebformDeserialize derive macro                            *)
(* (webformd_macros/src/lib.rs) and of the deserialize function it         *)
(* generates for a struct with named fields.                               *)
(*                                                                         *)
(* A struct is a sequence of fields [name, ty, from_str]; ty is the path   *)
(* of the field's type read outside-in (Option<Vec<i32>> is                *)
(* <<"Option","Vec","i32">>).  A form value is a sequence of characters.   *)
(* Option values: None is <<>> and Some(v) is <<v>>.                       *)
(***************************************************************************)
EXTENDS Integers, Sequences, FiniteSets, TLC

\* ---------------------------------------------------------------- bounds
MaxLen == 3

\* ------------------------------------------------------- modelled inputs
\* The k-th field of a struct is named FieldNames[k]; "extra" names no field.
FieldNames == <<"a", "b">>
Keys == {"a", "b", "extra"}
Values == {<<"1">>, <<"2">>, <<"x">>}

None == <<>>
Some(v) == <<v>>

\* Field kinds of the design: conversion only on list-shaped fields.
ListKinds ==
  { [ty |-> <<"Vec", "String">>, from_str |-> FALSE],
    [ty |-> <<"Vec", "i32">>, from_str |-> TRUE],
    [ty |-> <<"Option", "Vec", "String">>, from_str |-> FALSE],
    [ty |-> <<"Option", "Vec", "i32">>, from_str |-> TRUE] }

ScalarKinds ==
  { [ty |-> <<"String">>, from_str |-> FALSE],
    [ty |-> <<"Option", "String">>, from_str |-> FALSE] }

\* Scalar fields that carry #[webformd(from_str)].
AttrScalarKinds ==
  { [ty |-> <<"String">>, from_str |-> TRUE],
    [ty |-> <<"Option", "String">>, from_str |-> TRUE] }

\* Structs over the given kinds: named fields, names pairwise distinct.
Schemas(kinds) ==
  UNION { { [k \in 1..n |-> [name |-> FieldNames[k], ty |-> c[k].ty,
                             from_str |-> c[k].from_str]] :
            c \in [1..n -> kinds] } :
          n \in 0..Len(FieldNames) }

Inputs == UNION { [1..n -> Keys \X Values] : n \in 0..MaxLen }

\* ------------------------------------------------------ type inspection
is_option(ty) ==
  IF Len(ty) >= 2 /\ ty[1] = "Option" THEN <<TRUE, Tail(ty)>>
  ELSE <<FALSE, <<>>>>

is_vec(ty) ==
  IF Len(ty) >= 2 /\ ty[1] = "Vec" THEN <<TRUE, Tail(ty)>>
  ELSE <<FALSE, <<>>>>

\* ------------------------------------------------- the element conversion
\* s.parse() for the element type i32: checked multiply-and-add per digit.
DigitVal(c) ==
  CASE c = "0" -> 0 [] c = "1" -> 1 [] c = "2" -> 2 [] c = "3" -> 3
    [] c = "4" -> 4 [] c = "5" -> 5 [] c = "6" -> 6 [] c = "7" -> 7
    [] c = "8" -> 8 [] c = "9" -> 9 [] OTHER -> -1

RECURSIVE ParseDigits(_, _, _)
ParseDigits(ds, acc, neg) ==
  IF ds = <<>> THEN [ok |-> TRUE, val |-> acc, msg |-> ""]
  ELSE LET d == DigitVal(Head(ds)) IN
       IF d < 0
       THEN [ok |-> FALSE, val |-> 0, msg |-> "invalid digit found in string"]
       ELSE IF ~neg /\ (acc > 214748364 \/ (acc = 214748364 /\ d > 7))
       THEN [ok |-> FALSE, val |-> 0,
             msg |-> "number too large to fit in target type"]
       ELSE IF neg /\ (acc < -214748364 \/ (acc = -214748364 /\ d > 8))
       THEN [ok |-> FALSE, val |-> 0,
             msg |-> "number too small to fit in target type"]
       ELSE ParseDigits(Tail(ds), IF neg THEN acc * 10 - d ELSE acc * 10 + d,
                        neg)

parse(s) ==
  IF s = <<>>
  THEN [ok |-> FALSE, val |-> 0,
        msg |-> "cannot parse integer from empty string"]
  ELSE IF Len(s) = 1 /\ Head(s) \in {"+", "-"}
  THEN [ok |-> FALSE, val |-> 0, msg |-> "invalid digit found in string"]
  ELSE IF Head(s) = "-" THEN ParseDigits(Tail(s), 0, TRUE)
  ELSE IF Head(s) = "+" THEN ParseDigits(Tail(s), 0, FALSE)
  ELSE ParseDigits(s, 0, FALSE)

\* .into_iter().map(|s| s.parse()).collect::<Result<Vec<_>, _>>():
\* the parsed values in order, or the error of the first element that fails.
RECURSIVE collect(_, _)
collect(raw, acc) ==
  IF raw = <<>> THEN [ok |-> TRUE, val |-> acc, msg |-> ""]
  ELSE LET p == parse(Head(raw)) IN
       IF p.ok THEN collect(Tail(raw), Append(acc, p.val))
       ELSE [ok |-> FALSE, val |-> <<>>, msg |-> p.msg]

\* ------------------------------------------------------- macro expansion
\* What the derive macro pushes for one field: at most one declaration,
\* one match arm and one struct-literal assignment.
FieldCode(f) ==
  LET opt == is_option(f.ty)
      vec == is_vec(f.ty)
      one(init, arm, asg) ==
        [declarations |-> << [var |-> f.name, init |-> init] >>,
         matches      |-> << [key |-> f.name, arm |-> arm] >>,
         assignments  |-> << [field |-> f.name, expr |-> asg] >>]
  IN
  IF opt[1] THEN
    IF is_vec(opt[2])[1] THEN
      IF f.from_str THEN one(<<>>, "push", "parse_some_if_nonempty")
      ELSE one(<<>>, "push", "some_if_nonempty")
    ELSE one(None, "set_some_some", "flatten")
  ELSE IF vec[1] THEN
    IF f.from_str THEN one(<<>>, "push", "parse")
    ELSE one(<<>>, "push", "move")
  ELSE
    IF f.from_str
    THEN [declarations |-> <<>>, matches |-> <<>>, assignments |-> <<>>]
    ELSE one(None, "set_some", "ok_or_else")

\* Variant: the field initialisers are emitted in reverse declaration order.
RECURSIVE ExpandReversed(_)
ExpandReversed(fields) ==
  IF fields = <<>>
  THEN [declarations |-> <<>>, matches |-> <<>>, assignments |-> <<>>]
  ELSE LET h == FieldCode(Head(fields))
           t == ExpandReversed(Tail(fields))
       IN  [declarations |-> h.declarations \o t.declarations,
            matches      |-> h.matches \o t.matches,
            assignments  |-> t.assignments \o h.assignments]

RECURSIVE Expand(_)
Expand(fields) ==
  IF fields = <<>>
  THEN [declarations |-> <<>>, matches |-> <<>>, assignments |-> <<>>]
  ELSE LET h == FieldCode(Head(fields))
           t == Expand(Tail(fields))
       IN  [declarations |-> h.declarations \o t.declarations,
            matches      |-> h.matches \o t.matches,
            assignments  |-> h.assignments \o t.assignments]

\* ------------------------------------------------------ generated code
EmptyFn == [n \in {} |-> <<>>]

\* #(#declarations)*
RECURSIVE Declare(_)
Declare(decls) ==
  IF decls = <<>> THEN EmptyFn
  ELSE (Head(decls).var :> Head(decls).init) @@ Declare(Tail(decls))

\* Variant: a scalar keeps its first value.
ArmBodyFirstWins(arm, old, value) ==
  CASE arm = "push"          -> Append(old, value)
    [] arm = "set_some_some" -> IF old = None THEN Some(Some(value)) ELSE old
    [] arm = "set_some"      -> IF old = None THEN Some(value) ELSE old

\* Variant: a list drops a value it already holds.
ArmBodyDedup(arm, old, value) ==
  CASE arm = "push" ->
         IF \E x \in 1..Len(old) : old[x] = value THEN old
         ELSE Append(old, value)
    [] arm = "set_some_some" -> Some(Some(value))
    [] arm = "set_some"      -> Some(value)

\* The body of one match arm.
ArmBody(arm, old, value) ==
  CASE arm = "push"          -> Append(old, value)
    [] arm = "set_some_some" -> Some(Some(value))
    [] arm = "set_some"      -> Some(value)

\* Variant: no catch-all arm, an unmatched key runs the first arm.
MatchKeyFallthrough(matches, vars, key, value) ==
  LET hit == { m \in 1..Len(matches) : matches[m].key = key } IN
  IF hit = {} THEN
    IF matches = <<>> THEN vars
    ELSE [vars EXCEPT ![matches[1].key] =
            ArmBody(matches[1].arm, vars[matches[1].key], value)]
  ELSE LET m == CHOOSE x \in hit : \A y \in hit : x <= y IN
       [vars EXCEPT ![key] = ArmBody(matches[m].arm, vars[key], value)]

\* Variant: the list arms share one buffer, a matched list value reaches
\* every list variable.
MatchKeyShared(matches, vars, key, value) ==
  LET hit == { m \in 1..Len(matches) : matches[m].key = key } IN
  IF hit = {} THEN vars
  ELSE LET m == CHOOSE x \in hit : \A y \in hit : x <= y IN
       IF matches[m].arm = "push"
       THEN [n \in DOMAIN vars |->
               IF \E x \in 1..Len(matches) :
                    matches[x].key = n /\ matches[x].arm = "push"
               THEN Append(vars[n], value) ELSE vars[n]]
       ELSE [vars EXCEPT ![key] = ArmBody(matches[m].arm, vars[key], value)]

\* match key.as_str() { #(#matches)* _ => {} }
MatchKey(matches, vars, key, value) ==
  LET hit == { m \in 1..Len(matches) : matches[m].key = key } IN
  IF hit = {} THEN vars
  ELSE LET m == CHOOSE x \in hit : \A y \in hit : x <= y IN
       [vars EXCEPT ![key] = ArmBody(matches[m].arm, vars[key], value)]

\* Variant: the message names the generated identifier.
MissingMsgGenerated(name) == <<"Missing required field: '", "___", name, "'">>

\* format!("Missing required field: '{}'", name)
MissingMsg(name) == <<"Missing required field: '", name, "'">>

\* Variant: an empty list is kept as Some(empty).
SomeAlways(v) == Some(v)

\* if v.is_empty() { None } else { Some(v) }
SomeIfNonEmpty(v) == IF v = <<>> THEN None ELSE Some(v)

\* Variant: a missing value defaults to the empty string.
unwrap_or_default(v, name) ==
  IF v = None THEN [ok |-> TRUE, val |-> <<>>, err |-> <<>>]
  ELSE [ok |-> TRUE, val |-> v[1], err |-> <<>>]

\* v.ok_or_else(|| format!(...))?
ok_or_else(v, name) ==
  IF v = None THEN [ok |-> FALSE, val |-> <<>>, err |-> MissingMsg(name)]
  ELSE [ok |-> TRUE, val |-> v[1], err |-> <<>>]

\* One field initialiser of the struct literal: a value, or an early
\* return of Err.
Assign(a, vars) ==
  LET v == vars[a.field] IN
  CASE a.expr = "parse_some_if_nonempty" ->
         LET p == collect(v, <<>>) IN
         IF ~p.ok THEN [ok |-> FALSE, val |-> <<>>, err |-> <<p.msg>>]
         ELSE [ok |-> TRUE, val |-> SomeIfNonEmpty(p.val), err |-> <<>>]
    [] a.expr = "some_if_nonempty" ->
         [ok |-> TRUE, val |-> SomeIfNonEmpty(v), err |-> <<>>]
    [] a.expr = "flatten" ->
         [ok |-> TRUE, val |-> IF v = None THEN None ELSE v[1], err |-> <<>>]
    [] a.expr = "parse" ->
         LET p == collect(v, <<>>) IN
         IF ~p.ok THEN [ok |-> FALSE, val |-> <<>>, err |-> <<p.msg>>]
         ELSE [ok |-> TRUE, val |-> p.val, err |-> <<>>]
    [] a.expr = "move" ->
         [ok |-> TRUE, val |-> v, err |-> <<>>]
    [] a.expr = "ok_or_else" -> ok_or_else(v, a.field)

Ok(r) == [tag |-> "Ok", rec |-> r, err |-> <<>>]
Err(e) == [tag |-> "Err", rec |-> EmptyFn, err |-> e]
Pending == [tag |-> "Pending", rec |-> EmptyFn, err |-> <<>>]

NoImpl == [tag |-> "NoImpl", rec |-> EmptyFn, err |-> <<>>]

\* for (key, value) in data { match ... }
RECURSIVE Loop(_, _, _)
Loop(matches, vars, pairs) ==
  IF pairs = <<>> THEN vars
  ELSE Loop(matches, MatchKey(matches, vars, Head(pairs)[1], Head(pairs)[2]),
            Tail(pairs))

\* let s = Struct { #(#assignments)* }; Ok(s)
RECURSIVE Build(_, _, _)
Build(assignments, vars, r) ==
  IF assignments = <<>> THEN Ok(r)
  ELSE LET a == Assign(Head(assignments), vars) IN
       IF ~a.ok THEN Err(a.err)
       ELSE Build(Tail(assignments), vars,
                  (Head(assignments).field :> a.val) @@ r)

\* The struct literal names every field of the struct; otherwise the
\* expansion is rejected by the compiler and the struct has no deserialize.
Initialises(assignments, fields) ==
  \A k \in 1..Len(fields) :
    \E m \in 1..Len(assignments) : assignments[m].field = fields[k].name

\* The generated function as a whole.
deserialize(fields, pairs) ==
  LET c == Expand(fields) IN
  IF ~Initialises(c.assignments, fields) THEN NoImpl
  ELSE Build(c.assignments, Loop(c.matches, Declare(c.declarations), pairs),
             EmptyFn)

\* ------------------------------------------------------------- the state
VARIABLES schema, data, pc, locals, j, rec, result

vars_ == <<schema, data, pc, locals, j, rec, result>>

code == Expand(schema)

InitWith(kinds) ==
  /\ schema \in Schemas(kinds)
  /\ data \in Inputs
  /\ pc = "call"
  /\ locals = EmptyFn
  /\ j = 1
  /\ rec = EmptyFn
  /\ result = Pending

Init == InitWith(ScalarKinds \cup ListKinds)

InitAttr == InitWith(AttrScalarKinds \cup ListKinds)

\* The declarations and the loop over the input pairs.
Collect ==
  /\ pc = "call"
  /\ Initialises(code.assignments, schema)
  /\ locals' = Loop(code.matches, Declare(code.declarations), data)
  /\ pc' = "build"
  /\ UNCHANGED <<schema, data, j, rec, result>>

\* The struct literal leaves a field out: no deserialize is built.
Reject ==
  /\ pc = "call"
  /\ ~Initialises(code.assignments, schema)
  /\ result' = NoImpl
  /\ pc' = "done"
  /\ UNCHANGED <<schema, data, locals, j, rec>>

\* The next field initialiser of the struct literal evaluates to a value.
AssignOk ==
  /\ pc = "build"
  /\ j <= Len(code.assignments)
  /\ LET r == Assign(code.assignments[j], locals) IN
       /\ r.ok
       /\ rec' = (code.assignments[j].field :> r.val) @@ rec
  /\ j' = j + 1
  /\ UNCHANGED <<schema, data, pc, locals, result>>

\* The next field initialiser returns Err from deserialize.
AssignErr ==
  /\ pc = "build"
  /\ j <= Len(code.assignments)
  /\ LET r == Assign(code.assignments[j], locals) IN
       /\ ~r.ok
       /\ result' = Err(r.err)
  /\ pc' = "done"
  /\ UNCHANGED <<schema, data, locals, j, rec>>

\* Ok(s)
ReturnOk ==
  /\ pc = "build"
  /\ j > Len(code.assignments)
  /\ result' = Ok(rec)
  /\ pc' = "done"
  /\ UNCHANGED <<schema, data, locals, j, rec>>

Next == Collect \/ AssignOk \/ AssignErr \/ ReturnOk

NextAttr == Next \/ Reject

Spec == Init /\ [][Next]_vars_

SpecAttr == InitAttr /\ [][NextAttr]_vars_

\* ------------------------------------------------- vocabulary of the claims
Done == pc = "done"

\* The values of the pairs of d whose key is k, in input order.
RECURSIVE ValuesFor(_, _)
ValuesFor(d, k) ==
  IF d = <<>> THEN <<>>
  ELSE IF Head(d)[1] = k THEN <<Head(d)[2]>> \o ValuesFor(Tail(d), k)
  ELSE ValuesFor(Tail(d), k)

Occ(f) == ValuesFor(data, f.name)

IsRequiredScalar(f) == f.ty = <<"String">>
IsOptionalScalar(f) == f.ty = <<"Option", "String">>
IsScalar(f) == IsRequiredScalar(f) \/ IsOptionalScalar(f)
IsRequiredList(f) == f.ty[1] = "Vec"
IsOptionalList(f) == Len(f.ty) = 3 /\ f.ty[1] = "Option" /\ f.ty[2] = "Vec"
IsList(f) == IsRequiredList(f) \/ IsOptionalList(f)
IsConvList(f) == IsList(f) /\ f.from_str

BadElems(f) == { x \in 1..Len(Occ(f)) : ~parse(Occ(f)[x]).ok }

\* A field fails: a required scalar without occurrence, or a converted list
\* with an element that does not parse.
Fails(f) ==
  \/ IsRequiredScalar(f) /\ Occ(f) = <<>>
  \/ IsConvList(f) /\ BadElems(f) # {}

FailingFields == { k \in 1..Len(schema) : Fails(schema[k]) }

FirstFailing == CHOOSE k \in FailingFields : \A m \in FailingFields : k <= m

MissingText(name) == <<"Missing required field: '", name, "'">>

FirstBad(f) == CHOOSE x \in BadElems(f) : \A y \in BadElems(f) : x <= y

\* The error a failing field yields on its own.
ErrorOf(f) ==
  IF IsRequiredScalar(f) THEN MissingText(f.name)
  ELSE <<parse(Occ(f)[FirstBad(f)]).msg>>

Parsed(raw) == [x \in 1..Len(raw) |-> parse(raw[x]).val]

Mentions(err, text) == \E x \in 1..Len(err) : err[x] = text
Last(q) == q[Len(q)]

KnownKey(k) == \E x \in 1..Len(schema) : schema[x].name = k

\* The input without the pairs whose key names no field.
Known(d) == SelectSeq(d, LAMBDA p : KnownKey(p[1]))

\* The input regrouped by key, in field order: it depends on nothing but
\* the per-key value sequences of the fields.
RECURSIVE Regroup(_, _)
Regroup(fields, d) ==
  IF fields = <<>> THEN <<>>
  ELSE LET vs == ValuesFor(d, Head(fields).name) IN
       [x \in 1..Len(vs) |-> <<Head(fields).name, vs[x]>>]
         \o Regroup(Tail(fields), d)

\* The struct without the from_str attribute on its scalar fields.
StripScalarAttr(fields) ==
  [k \in 1..Len(fields) |->
     IF IsScalar(fields[k]) THEN [fields[k] EXCEPT !.from_str = FALSE]
     ELSE fields[k]]

FieldNameSet == { schema[k].name : k \in 1..Len(schema) }

\* ------------------------------------------------------------------ claims

\* C1: when at least one field fails, deserialize returns one error and no
\* record, and the error is that of the first failing field in declaration
\* order, wherever the offending pairs are in the input.
C1_FirstFailingFieldError ==
  (Done /\ FailingFields # {}) =>
     /\ result.tag = "Err"
     /\ result.rec = EmptyFn
     /\ result.err = ErrorOf(schema[FirstFailing])

\* Two fields fail with different errors and the first one's is returned.
C1_Witness ==
  /\ Done
  /\ Cardinality(FailingFields) = 2
  /\ ErrorOf(schema[1]) # ErrorOf(schema[2])
  /\ result.err = ErrorOf(schema[1])

\* C2: when a converted list (required or optional) has an element that
\* does not parse, the returned error references the field's declared name
\* together with the parse message, and no record is returned.
C2_ConversionErrorNamesField ==
  (Done /\ FailingFields # {} /\ IsConvList(schema[FirstFailing])) =>
     /\ result.tag = "Err"
     /\ result.rec = EmptyFn
     /\ Mentions(result.err, parse(Occ(schema[FirstFailing])
                                     [FirstBad(schema[FirstFailing])]).msg)
     /\ Mentions(result.err, schema[FirstFailing].name)

\* C3: deserialize returns an error exactly when some field fails (required
\* scalar without occurrence, converted list with an unparsable element);
\* otherwise it returns a record binding every field.
C3_ErrorIffFieldFails ==
  Done =>
     /\ result.tag \in {"Ok", "Err"}
     /\ result.tag = "Err" <=> FailingFields # {}
     /\ result.tag = "Ok" => DOMAIN result.rec = FieldNameSet

\* A record is returned although a required list and an optional scalar
\* have no occurrence.
C3_Witness ==
  /\ Done
  /\ result.tag = "Ok"
  /\ Len(schema) = 2
  /\ \E k \in 1..2 : IsRequiredList(schema[k]) /\ Occ(schema[k]) = <<>>
  /\ \E k \in 1..2 : IsOptionalScalar(schema[k]) /\ Occ(schema[k]) = <<>>

\* C4: when the first failing field is a required scalar without occurrence,
\* the error message is exactly "Missing required field: '<name>'".
C4_MissingFieldMessage ==
  (Done /\ FailingFields # {} /\ IsRequiredScalar(schema[FirstFailing])) =>
     /\ result.tag = "Err"
     /\ result.err = <<"Missing required field: '",
                       schema[FirstFailing].name, "'">>

\* The second field is the missing required scalar; the input is not empty.
C4_Witness ==
  /\ Done
  /\ FailingFields = {2}
  /\ IsRequiredScalar(schema[2])
  /\ data # <<>>
  /\ result.err = <<"Missing required field: '", "b", "'">>

\* C5: a scalar field whose key occurs in the input is bound to the value
\* of the last pair with that key.
C5_LastValueWins ==
  (Done /\ result.tag = "Ok") =>
     \A k \in 1..Len(schema) :
       (IsScalar(schema[k]) /\ Occ(schema[k]) # <<>>) =>
          result.rec[schema[k].name] =
            IF IsRequiredScalar(schema[k]) THEN Last(Occ(schema[k]))
            ELSE Some(Last(Occ(schema[k])))

\* A required and an optional scalar, one of them repeated with different
\* values.
C5_Witness ==
  /\ Done
  /\ result.tag = "Ok"
  /\ Len(schema) = 2
  /\ IsRequiredScalar(schema[1])
  /\ IsOptionalScalar(schema[2])
  /\ Occ(schema[2]) # <<>>
  /\ Len(Occ(schema[1])) >= 2
  /\ Occ(schema[1])[1] # Last(Occ(schema[1]))

\* C6: a list field without conversion is bound to exactly the values of
\* the pairs with its key, in input order, duplicates kept (an optional
\* list, when it is present).
C6_ListIsKeySubsequence ==
  (Done /\ result.tag = "Ok") =>
     \A k \in 1..Len(schema) :
       (IsList(schema[k]) /\ ~schema[k].from_str) =>
          IF IsRequiredList(schema[k])
          THEN result.rec[schema[k].name] = Occ(schema[k])
          ELSE result.rec[schema[k].name] \in {None, Some(Occ(schema[k]))}

\* A required list receives a, b, a.
C6_Witness ==
  /\ Done
  /\ result.tag = "Ok"
  /\ \E k \in 1..Len(schema) :
       /\ IsRequiredList(schema[k])
       /\ ~schema[k].from_str
       /\ Len(Occ(schema[k])) = 3
       /\ Occ(schema[k])[1] = Occ(schema[k])[3]
       /\ Occ(schema[k])[1] # Occ(schema[k])[2]

\* C7: on success an optional list is absent exactly when its key has no
\* pair; otherwise it is present with the values (parsed under a
\* conversion) in input order; Some(empty) is never produced.
C7_OptionalListAbsentIffEmpty ==
  (Done /\ result.tag = "Ok") =>
     \A k \in 1..Len(schema) :
       IsOptionalList(schema[k]) =>
          /\ result.rec[schema[k].name] = None <=> Occ(schema[k]) = <<>>
          /\ result.rec[schema[k].name] # Some(<<>>)
          /\ Occ(schema[k]) # <<>> =>
               result.rec[schema[k].name] =
                 Some(IF schema[k].from_str THEN Parsed(Occ(schema[k]))
                      ELSE Occ(schema[k]))

\* A converted optional list with two different numbers, next to an
\* optional list without pairs.
C7_Witness ==
  /\ Done
  /\ result.tag = "Ok"
  /\ Len(schema) = 2
  /\ IsOptionalList(schema[1]) /\ schema[1].from_str
  /\ Len(Occ(schema[1])) = 2
  /\ result.rec["a"] = Some(<<2, 1>>)
  /\ IsOptionalList(schema[2])
  /\ result.rec["b"] = None

\* C8: pairs whose key names no field are ignored: the result is the one
\* deserialize gives for the input with those pairs removed.
C8_UnknownKeysIgnored ==
  Done => result = deserialize(schema, Known(data))

\* Unknown pairs stand before and between the pairs of a field.
C8_Witness ==
  /\ Done
  /\ result.tag = "Ok"
  /\ Len(schema) >= 1
  /\ Len(data) = 3
  /\ ~KnownKey(data[1][1])
  /\ KnownKey(data[2][1])
  /\ data[3][1] = "extra"

\* C10: the result depends only on the per-key value sequences of the
\* fields: it is the result for the input regrouped by key, which is the
\* same for all inputs that agree on those sequences.
C10_InterleavingIrrelevant ==
  Done => result = deserialize(schema, Regroup(schema, data))

\* The pairs of the two fields are interleaved against field order.
C10_Witness ==
  /\ Done
  /\ Len(schema) = 2
  /\ Len(data) = 3
  /\ data[1][1] = "b" /\ data[2][1] = "a" /\ data[3][1] = "b"
  /\ data[1][2] # data[3][2]
  /\ Regroup(schema, data) # data

\* C9: the from_str attribute changes nothing for a scalar field: the
\* result is the one of the same struct without the attribute on its
\* scalars (raw last value, missing-field error, or absent).
C9_ScalarAttributeChangesNothing ==
  Done => result = deserialize(StripScalarAttr(schema), data)
====
